---- MODULE Spec2Model ----
(***************************************************************************)
(* Model of ffcc/train.py: main (config bootstrap, fold selection, model   *)
(* directory creation), train_and_eval_fn (estimator construction and the  *)
(* checkpoint cadence) and print_eval.                                     *)
(*                                                                         *)
(* The collaborators ffcc.io, ffcc.input, ffcc.model and tf.estimator are  *)
(* black boxes that return normally; the Python runtime (argument binding, *)
(* subscripting, true division, json.dump / json.load, assert) is modelled *)
(* by what it does.                                                        *)
(***************************************************************************)
EXTENDS Integers, Sequences, FiniteSets, TLC

(***************************************************************************)
(* Python values that cross json.dump / json.load.  Every value has the    *)
(* same record shape: kind, a literal, and a sequence of children.         *)
(***************************************************************************)
JV(k, l, xs) == [kind |-> k, lit |-> l, items |-> xs]
None == JV("none", "", <<>>)
Num(l) == JV("num", l, <<>>)
Str(s) == JV("str", s, <<>>)
List(xs) == JV("list", "", xs)
Pair(k, v) == JV("pair", k, <<v>>)
Dict(ps) == JV("dict", "", ps)

(***************************************************************************)
(* JSON text, as the sequence of lexical tokens of the file.               *)
(***************************************************************************)
Tok(t, v) == [t |-> t, v |-> v]
P(c) == Tok("p", c)
WS == Tok("ws", " ")

RECURSIVE JsonDump(_)
RECURSIVE DumpItems(_, _)
RECURSIVE DumpPairs(_, _)

\* json.dump with the default separators (', ', ': ').
DumpItems(xs, i) ==
  IF i > Len(xs) THEN <<>>
  ELSE (IF i > 1 THEN <<P(","), WS>> ELSE <<>>)
       \o JsonDump(xs[i]) \o DumpItems(xs, i + 1)

DumpPairs(ps, i) ==
  IF i > Len(ps) THEN <<>>
  ELSE (IF i > 1 THEN <<P(","), WS>> ELSE <<>>)
       \o <<Tok("str", ps[i].lit), P(":"), WS>>
       \o JsonDump(ps[i].items[1]) \o DumpPairs(ps, i + 1)

JsonDump(v) ==
  CASE v.kind = "num" -> <<Tok("num", v.lit)>>
    [] v.kind = "str" -> <<Tok("str", v.lit)>>
    [] v.kind = "list" -> <<P("[")>> \o DumpItems(v.items, 1) \o <<P("]")>>
    [] v.kind = "dict" -> <<P("{")>> \o DumpPairs(v.items, 1) \o <<P("}")>>
    [] OTHER -> <<Tok("lit", "null")>>

\* json.load: a recursive-descent parse; whitespace between tokens is
\* skipped, anything else that does not fit the grammar raises.
ParseFail == [ok |-> FALSE, val |-> None, rest |-> <<>>]
ParseOk(v, r) == [ok |-> TRUE, val |-> v, rest |-> r]

RECURSIVE SkipWs(_)
SkipWs(ts) ==
  IF ts # <<>> /\ Head(ts).t = "ws" THEN SkipWs(Tail(ts)) ELSE ts

\* dict[k] = v on an insertion-ordered dict: a repeated key keeps its place
\* and takes the last value.
RECURSIVE DictPut(_, _, _)
DictPut(ps, k, v) ==
  IF ps = <<>> THEN <<Pair(k, v)>>
  ELSE IF Head(ps).lit = k THEN <<Pair(k, v)>> \o Tail(ps)
  ELSE <<Head(ps)>> \o DictPut(Tail(ps), k, v)

RECURSIVE ParseValue(_)
RECURSIVE ParseListItems(_, _)
RECURSIVE ParseDictItems(_, _)

ParseListItems(ts, acc) ==
  LET r == ParseValue(ts)
      s == SkipWs(r.rest)
  IN IF ~r.ok \/ s = <<>> THEN ParseFail
     ELSE IF Head(s) = P(",") THEN ParseListItems(Tail(s), Append(acc, r.val))
     ELSE IF Head(s) = P("]") THEN ParseOk(List(Append(acc, r.val)), Tail(s))
     ELSE ParseFail

ParseDictItems(ts, acc) ==
  LET k == SkipWs(ts)
      c == SkipWs(Tail(k))
      r == ParseValue(Tail(c))
      s == SkipWs(r.rest)
  IN IF k = <<>> \/ Head(k).t # "str" THEN ParseFail
     ELSE IF c = <<>> \/ Head(c) # P(":") THEN ParseFail
     ELSE IF ~r.ok \/ s = <<>> THEN ParseFail
     ELSE IF Head(s) = P(",")
          THEN ParseDictItems(Tail(s), DictPut(acc, Head(k).v, r.val))
     ELSE IF Head(s) = P("}")
          THEN ParseOk(Dict(DictPut(acc, Head(k).v, r.val)), Tail(s))
     ELSE ParseFail

ParseValue(ts) ==
  LET s == SkipWs(ts)
      b == SkipWs(Tail(s))
  IN IF s = <<>> THEN ParseFail
     ELSE IF Head(s).t = "num" THEN ParseOk(Num(Head(s).v), Tail(s))
     ELSE IF Head(s).t = "str" THEN ParseOk(Str(Head(s).v), Tail(s))
     ELSE IF Head(s) = Tok("lit", "null") THEN ParseOk(None, Tail(s))
     ELSE IF Head(s) = P("[")
          THEN IF b # <<>> /\ Head(b) = P("]")
               THEN ParseOk(List(<<>>), Tail(b))
               ELSE ParseListItems(Tail(s), <<>>)
     ELSE IF Head(s) = P("{")
          THEN IF b # <<>> /\ Head(b) = P("}")
               THEN ParseOk(Dict(<<>>), Tail(b))
               ELSE ParseDictItems(Tail(s), <<>>)
     ELSE ParseFail

JsonLoad(text) ==
  LET r == ParseValue(text)
  IN IF r.ok /\ SkipWs(r.rest) = <<>> THEN r ELSE ParseFail


(***************************************************************************)
(* Python subscripting, hparams['batch_size'] (train.py line 81).          *)
(***************************************************************************)
RECURSIVE DictGet(_, _)
DictGet(ps, k) ==
  IF ps = <<>> THEN [ok |-> FALSE, val |-> None, exc |-> "KeyError"]
  ELSE IF Head(ps).lit = k
       THEN [ok |-> TRUE, val |-> Head(ps).items[1], exc |-> ""]
  ELSE DictGet(Tail(ps), k)

Subscript(v, k) ==
  IF v.kind = "dict" THEN DictGet(v.items, k)
  ELSE [ok |-> FALSE, val |-> None, exc |-> "TypeError"]

(***************************************************************************)
(* Python integers of any size, as two limbs: value = hi * Base + lo.      *)
(***************************************************************************)
Base == 2^26
Big(h, l) == [hi |-> h, lo |-> l]
Min(a, b) == IF a < b THEN a ELSE b

RECURSIVE BitLen(_)
BitLen(n) == IF n = 0 THEN 0 ELSE 1 + BitLen(n \div 2)
BigBitLen(a) == IF a.hi > 0 THEN 26 + BitLen(a.hi) ELSE BitLen(a.lo)

BigAdd(a, k) ==
  IF a.lo + k >= Base THEN Big(a.hi + 1, a.lo + k - Base)
  ELSE Big(a.hi, a.lo + k)

BigLess(a, b) == a.hi < b.hi \/ (a.hi = b.hi /\ a.lo < b.lo)
BigMax(a, b) == IF BigLess(a, b) THEN b ELSE a

\* floor division and remainder of a by a small positive b
DivMod(a, b) ==
  LET t == (a.hi % b) * Base + a.lo
  IN [q |-> Big(a.hi \div b, t \div b), r |-> t % b]

\* The mathematical ceil(a / b).
ExactCeil(a, b) ==
  LET d == DivMod(a, b) IN IF d.r = 0 THEN d.q ELSE BigAdd(d.q, 1)

DBL_MANT_DIG == 53

\* math.ceil(a / b) as Python computes it: a / b is the IEEE double nearest
\* to the quotient (round-half-to-even), and ceil is taken of that double.
\* With Q = a div b and r = a mod b the quotient is Q + r/b.
\*  - Q of at most 53 bits: the double keeps f = 53 - bitlen(Q) fraction
\*    bits, so it equals Q exactly when r/b rounds to 0, i.e. when
\*    r * 2^(f+1) < b (or = b and the significand is even); since b < 2^20
\*    the power is capped at 2^20 without changing the comparison.
\*  - Q of more than 53 bits: the low g = bitlen(Q) - 53 bits of Q are
\*    rounded away together with r/b.
MathCeilTrueDiv(a, b) ==
  LET d == DivMod(a, b)
      Q == d.q
      r == d.r
      L == BigBitLen(Q)
      f == DBL_MANT_DIG - L
      p == 2^Min(f + 1, 20)
      g == L - DBL_MANT_DIG
      m == 2^g
      low == Q.lo % m
      base == Big(Q.hi, Q.lo - low)
      num == low * b + r
      half == (m \div 2) * b
      even == (Q.lo \div m) % 2 = 0
  IN IF L <= DBL_MANT_DIG
     THEN IF r = 0 \/ r * p < b \/ (r * p = b /\ (f > 0 \/ Q.lo % 2 = 0))
          THEN Q ELSE BigAdd(Q, 1)
     ELSE IF num < half \/ (num = half /\ even)
          THEN base ELSE BigAdd(base, m)

\* train.py lines 86-87
UpdateSteps(total_training_iterations, updates_per_epoch) ==
  BigMax(Big(0, 1), MathCeilTrueDiv(total_training_iterations, updates_per_epoch))

(***************************************************************************)
(* Module-level constants of train.py and the hardcoded defaults of main.  *)
(***************************************************************************)
PROJECT_NAME == "GehlerShi"
MODEL_DIR == "./GehlerShi_model/"
HPARAMS_JSON == "GehlerShi_hyperparams.json"
PARAMS_JSON == "GehlerShi_params.json"

\* hparams = []   (line 169)
DEFAULT_HPARAMS == List(<<>>)

\* params = {...}   (lines 178-187)
DEFAULT_PARAMS ==
  Dict(<<Pair("first_bin", Num("-0.4375")),
         Pair("nbins", Num("64")),
         Pair("bin_size", Num("0.03125")),
         Pair("variance", Num("0.0833333333")),
         Pair("ellipse_params",
              Dict(<<Pair("w_mat", List(<<Num("2.2869704"), Num("0.7841647"),
                                          Num("0.7841649"), Num("1.3999774")>>)),
                     Pair("b_vec", List(<<Num("-1.2658409"),
                                          Num("-1.2520925")>>))>>)),
         Pair("extended_feature_bins", List(<<Num("0.0")>>)),
         Pair("extended_vector_length", Num("1"))>>)

\* os.path.join(MODEL_DIR, 'fold%d' % test_fold)
FoldName(n) == CASE n = 1 -> "fold1" [] n = 2 -> "fold2" [] n = 3 -> "fold3"
                 [] n = 4 -> "fold4" [] OTHER -> "fold?"
FoldDir(n) == <<MODEL_DIR, FoldName(n)>>

\* range(1, 4)
SweepFolds == <<1, 2, 3>>

\* Parameter lists of the two functions main calls; neither has defaults.
TrainAndEvalFnParams ==
  <<"params", "hparams", "train_set", "train_label", "eval_set",
    "eval_label", "model_dir">>
PrintEvalParams == <<"params", "hparams", "model_dir", "eval_set">>

\* Positional binding of a call: every parameter needs its argument.
Binds(formals, args) == Len(args) = Len(formals)

(***************************************************************************)
(* Bounds and the inputs the runs are started from.                        *)
(***************************************************************************)
MaxRuns == 2
MaxFold == 3

File(text) == [exists |-> TRUE, text |-> text]
NoFile == [exists |-> FALSE, text |-> <<>>]

\* Contents the hyperparameter file may have when main starts: absent, the
\* list a previous run dumped, the same list with hand-edited whitespace, a
\* record with a batch size, a truncated file.
HparamsFiles ==
  { NoFile,
    File(<<P("["), P("]")>>),
    File(<<P("["), WS, P("]"), WS>>),
    File(<<P("{"), Tok("str", "batch_size"), P(":"), WS, Tok("num", "32"),
           P("}")>>),
    File(<<P("{")>>) }

ParamsFiles ==
  { NoFile,
    File(JsonDump(DEFAULT_PARAMS)),
    File(<<WS, P("{"), Tok("str", "nbins"), P(":"), Tok("num", "64"), WS,
           P("}")>>),
    File(<<P("["), P(",")>>) }

\* Iteration totals the input builder may return: the spec's examples, exact
\* multiples, and totals beyond the 53-bit significand of a double
\* (10 * 2^50 + 1 and 2^53 + 1).
TotalIterations ==
  { Big(0, 0), Big(0, 5), Big(0, 95), Big(0, 100), Big(0, 101),
    Big(10 * 2^24, 1), Big(2^27, 1) }

UpdatesPerEpoch == {1, 10}

VARIABLES
  built_with_cuda, TEST_FOLD, do_print_eval, NUM_UPDATES_PER_EPOCH,
  hfile, pfile, dirs,
  pc, exc, hparams, params, test_fold, current_model_dir, dataset,
  call, estimator, train_spec,
  writes, loads, makedirs_calls, reads, train_eval_calls, print_eval_done,
  run, start, prev

config == <<built_with_cuda, TEST_FOLD, do_print_eval, NUM_UPDATES_PER_EPOCH>>
fsys == <<hfile, pfile, dirs>>
locals == <<hparams, params, test_fold, current_model_dir, dataset, call,
            estimator, train_spec>>
trace == <<writes, loads, makedirs_calls, reads, train_eval_calls,
           print_eval_done>>
history == <<run, start, prev>>
vars == <<config, fsys, pc, exc, locals, trace, history>>

NoEstimator == [built |-> FALSE, model_dir |-> <<>>,
                save_checkpoints_steps |-> Big(0, 0),
                save_summary_steps |-> Big(0, 0)]
NoTrainSpec == [max_steps |-> Big(0, 0)]
NoPrev == [valid |-> FALSE, start |-> [hfile |-> NoFile, pfile |-> NoFile, dirs |-> {}],
           hparams |-> None, params |-> None, hfile |-> NoFile,
           pfile |-> NoFile, pc |-> ""]

Init ==
  /\ built_with_cuda \in BOOLEAN
  /\ TEST_FOLD \in 0..MaxFold
  /\ do_print_eval \in BOOLEAN
  /\ NUM_UPDATES_PER_EPOCH \in UpdatesPerEpoch
  /\ hfile \in HparamsFiles
  /\ pfile \in ParamsFiles
  /\ dirs \in SUBSET {FoldDir(n) : n \in 1..MaxFold}
  /\ pc = "assert"
  /\ exc = ""
  /\ hparams = None
  /\ params = None
  /\ test_fold = 0
  /\ current_model_dir = <<>>
  /\ dataset = 0
  /\ call = <<>>
  /\ estimator = NoEstimator
  /\ train_spec = NoTrainSpec
  /\ writes = <<>>
  /\ loads = {}
  /\ makedirs_calls = <<>>
  /\ reads = <<>>
  /\ train_eval_calls = <<>>
  /\ print_eval_done = 0
  /\ run = 1
  /\ start = [hfile |-> hfile, pfile |-> pfile, dirs |-> dirs]
  /\ prev = NoPrev

\* An uncaught exception propagates out of main and ends the run.
Raise(e) == pc' = "aborted" /\ exc' = e

\* Variant: the assertion is not evaluated.
AssertNoCuda_Stripped ==
  /\ pc = "assert"
  /\ pc' = "hparams" /\ exc' = exc
  /\ UNCHANGED <<config, fsys, locals, trace, history>>

\* line 161: assert not tf.test.is_built_with_cuda()
AssertNoCuda ==
  /\ pc = "assert"
  /\ IF built_with_cuda THEN Raise("AssertionError")
     ELSE pc' = "hparams" /\ exc' = exc
  /\ UNCHANGED <<config, fsys, locals, trace, history>>

\* Variant: the loaded hyperparameters are dumped back to the file.
HparamsLoad_Rewrites ==
  /\ pc = "hparams"
  /\ hfile.exists
  /\ LET r == JsonLoad(hfile.text)
     IN IF r.ok
        THEN /\ hparams' = r.val
             /\ hfile' = File(JsonDump(r.val))
             /\ loads' = loads \cup {HPARAMS_JSON}
             /\ pc' = "params" /\ exc' = exc
        ELSE /\ Raise("JSONDecodeError")
             /\ UNCHANGED <<hparams, hfile, loads>>
  /\ UNCHANGED <<config, pfile, dirs, params, test_fold, current_model_dir,
                 dataset, call, estimator, train_spec, writes, makedirs_calls,
                 reads, train_eval_calls, print_eval_done, history>>

\* lines 163-166: the hyperparameter file exists and is loaded
HparamsLoad ==
  /\ pc = "hparams"
  /\ hfile.exists
  /\ LET r == JsonLoad(hfile.text)
     IN IF r.ok
        THEN /\ hparams' = r.val
             /\ loads' = loads \cup {HPARAMS_JSON}
             /\ pc' = "params" /\ exc' = exc
        ELSE /\ Raise("JSONDecodeError")
             /\ UNCHANGED <<hparams, loads>>
  /\ UNCHANGED <<config, fsys, params, test_fold, current_model_dir, dataset,
                 call, estimator, train_spec, writes, makedirs_calls, reads,
                 train_eval_calls, print_eval_done, history>>

\* Variant: the default hyperparameters are used but never dumped.
HparamsDefault_NoWrite ==
  /\ pc = "hparams"
  /\ ~hfile.exists
  /\ hparams' = DEFAULT_HPARAMS
  /\ pc' = "params"
  /\ UNCHANGED <<config, fsys, exc, params, test_fold, current_model_dir,
                 dataset, call, estimator, train_spec, trace, history>>

\* lines 167-171: no hyperparameter file; the default is used and dumped
HparamsDefault ==
  /\ pc = "hparams"
  /\ ~hfile.exists
  /\ hparams' = DEFAULT_HPARAMS
  /\ hfile' = File(JsonDump(hparams'))
  /\ writes' = Append(writes, [name |-> HPARAMS_JSON, text |-> hfile'.text])
  /\ pc' = "params"
  /\ UNCHANGED <<config, pfile, dirs, exc, params, test_fold,
                 current_model_dir, dataset, call, estimator, train_spec,
                 loads, makedirs_calls, reads, train_eval_calls,
                 print_eval_done, history>>

\* lines 173-176: the parameter file exists and is loaded
ParamsLoad ==
  /\ pc = "params"
  /\ pfile.exists
  /\ LET r == JsonLoad(pfile.text)
     IN IF r.ok
        THEN /\ params' = r.val
             /\ loads' = loads \cup {PARAMS_JSON}
             /\ pc' = "fold" /\ exc' = exc
        ELSE /\ Raise("JSONDecodeError")
             /\ UNCHANGED <<params, loads>>
  /\ UNCHANGED <<config, fsys, hparams, test_fold, current_model_dir, dataset,
                 call, estimator, train_spec, writes, makedirs_calls, reads,
                 train_eval_calls, print_eval_done, history>>

\* Variant: the hyperparameters are dumped into the parameter file.
ParamsDefault_DumpsHparams ==
  /\ pc = "params"
  /\ ~pfile.exists
  /\ params' = DEFAULT_PARAMS
  /\ pfile' = File(JsonDump(hparams))
  /\ writes' = Append(writes, [name |-> PARAMS_JSON, text |-> pfile'.text])
  /\ pc' = "fold"
  /\ UNCHANGED <<config, hfile, dirs, exc, hparams, test_fold,
                 current_model_dir, dataset, call, estimator, train_spec,
                 loads, makedirs_calls, reads, train_eval_calls,
                 print_eval_done, history>>

\* lines 177-189: no parameter file; the default is used and dumped
ParamsDefault ==
  /\ pc = "params"
  /\ ~pfile.exists
  /\ params' = DEFAULT_PARAMS
  /\ pfile' = File(JsonDump(params'))
  /\ writes' = Append(writes, [name |-> PARAMS_JSON, text |-> pfile'.text])
  /\ pc' = "fold"
  /\ UNCHANGED <<config, hfile, dirs, exc, hparams, test_fold,
                 current_model_dir, dataset, call, estimator, train_spec,
                 loads, makedirs_calls, reads, train_eval_calls,
                 print_eval_done, history>>

\* The sweep branch (TEST_FOLD == 0) is being executed.
InSweep == TEST_FOLD = 0

\* Variant: the single-fold branch starts from the sweep's first fold.
SelectFold_FirstFold ==
  /\ pc = "fold"
  /\ test_fold' = Head(SweepFolds)
  /\ pc' = "mkdir"
  /\ UNCHANGED <<config, fsys, exc, hparams, params, current_model_dir,
                 dataset, call, estimator, train_spec, trace, history>>

\* lines 192-193 and 209: the first fold of the sweep, or the single fold
SelectFold ==
  /\ pc = "fold"
  /\ test_fold' = IF InSweep THEN Head(SweepFolds) ELSE TEST_FOLD
  /\ pc' = "mkdir"
  /\ UNCHANGED <<config, fsys, exc, hparams, params, current_model_dir,
                 dataset, call, estimator, train_spec, trace, history>>

\* lines 195-197 and 211-213: create the fold's directory unless it exists
\* Variant: makedirs is called without the existence test.
NeedsMakedirs_Always(ds, d) == TRUE
NeedsMakedirs(ds, d) == d \notin ds
EnsureDir(ds, d) == IF NeedsMakedirs(ds, d) THEN ds \cup {d} ELSE ds

EnsureModelDir ==
  /\ pc = "mkdir"
  /\ current_model_dir' = FoldDir(test_fold)
  /\ dirs' = EnsureDir(dirs, current_model_dir')
  /\ makedirs_calls' = IF NeedsMakedirs(dirs, current_model_dir')
                       THEN Append(makedirs_calls, current_model_dir')
                       ELSE makedirs_calls
  /\ pc' = "read"
  /\ UNCHANGED <<config, hfile, pfile, exc, hparams, params, test_fold,
                 dataset, call, estimator, train_spec, writes, loads, reads,
                 train_eval_calls, print_eval_done, history>>

\* lines 199-201 and 215-217: io.read_dataset_from_dir(DATA_DIR, fold)
ReadDataset ==
  /\ pc = "read"
  /\ dataset' = test_fold
  /\ reads' = Append(reads, test_fold)
  /\ pc' = "build"
  /\ UNCHANGED <<config, fsys, exc, hparams, params, test_fold,
                 current_model_dir, call, estimator, train_spec, writes,
                 loads, makedirs_calls, train_eval_calls, print_eval_done,
                 history>>

\* The positional arguments of the two call sites of train_and_eval_fn.
Arg(v, s, n) == [v |-> v, s |-> s, n |-> n]
DataArgs ==
  <<Arg(params, <<"params">>, 0), Arg(hparams, <<"hparams">>, 0),
    Arg(None, <<"train_set">>, dataset), Arg(None, <<"train_labels">>, dataset),
    Arg(None, <<"eval_set">>, dataset), Arg(None, <<"eval_labels">>, dataset)>>
\* lines 203-204
SweepCallArgs == DataArgs
\* lines 219-221
SingleCallArgs == DataArgs \o <<Arg(None, current_model_dir, 0)>>

\* lines 59-116, called from line 203 or line 219
TrainAndEvalFn ==
  /\ pc = "build"
  /\ call' = IF InSweep THEN SweepCallArgs ELSE SingleCallArgs
  /\ IF ~Binds(TrainAndEvalFnParams, call')
     THEN /\ Raise("TypeError")
          /\ UNCHANGED <<estimator, train_spec>>
     ELSE LET batch_size == Subscript(call'[2].v, "batch_size")
          IN IF ~batch_size.ok
             THEN /\ Raise(batch_size.exc)
                  /\ UNCHANGED <<estimator, train_spec>>
             ELSE \E total_training_iterations \in TotalIterations :
                    LET update_steps ==
                          UpdateSteps(total_training_iterations,
                                      NUM_UPDATES_PER_EPOCH)
                    IN /\ estimator' =
                            [built |-> TRUE, model_dir |-> call'[7].s,
                             save_checkpoints_steps |-> update_steps,
                             save_summary_steps |-> update_steps]
                       /\ train_spec' =
                            [max_steps |-> total_training_iterations]
                       /\ pc' = "run" /\ exc' = exc
  /\ UNCHANGED <<config, fsys, hparams, params, test_fold, current_model_dir,
                 dataset, trace, history>>

\* lines 206 and 223: print_eval(params, hparams)
PrintEvalCallArgs == <<Arg(params, <<"params">>, 0), Arg(hparams, <<"hparams">>, 0)>>

\* lines 205-206 / 222-223, and print_eval (lines 119-152)
PrintEval ==
  /\ pc = "run"
  /\ do_print_eval
  /\ IF ~Binds(PrintEvalParams, PrintEvalCallArgs)
     THEN Raise("TypeError") /\ UNCHANGED print_eval_done
     ELSE /\ print_eval_done' = print_eval_done + 1
          /\ pc' = "next" /\ exc' = exc
  /\ UNCHANGED <<config, fsys, locals, writes, loads, makedirs_calls, reads,
                 train_eval_calls, history>>

\* lines 207-208 / 224-225: tf.estimator.train_and_evaluate(...)
TrainAndEvaluate ==
  /\ pc = "run"
  /\ ~do_print_eval
  /\ train_eval_calls' =
       Append(train_eval_calls,
              [fold |-> dataset, estimator |-> estimator,
               train_spec |-> train_spec])
  /\ pc' = "next"
  /\ UNCHANGED <<config, fsys, exc, locals, writes, loads, makedirs_calls,
                 reads, print_eval_done, history>>

\* line 193: the next fold of the sweep, or the end of main
NextFold ==
  /\ pc = "next"
  /\ IF InSweep /\ test_fold < SweepFolds[Len(SweepFolds)]
     THEN test_fold' = test_fold + 1 /\ pc' = "mkdir"
     ELSE test_fold' = test_fold /\ pc' = "done"
  /\ UNCHANGED <<config, fsys, exc, hparams, params, current_model_dir,
                 dataset, call, estimator, train_spec, trace, history>>

Terminated == pc \in {"done", "aborted"}

\* The program is started again on the filesystem the last run left.
RunAgain ==
  /\ Terminated
  /\ run < MaxRuns
  /\ run' = run + 1
  /\ prev' = [valid |-> TRUE, start |-> start, hparams |-> hparams,
              params |-> params, hfile |-> hfile, pfile |-> pfile, pc |-> pc]
  /\ start' = [hfile |-> hfile, pfile |-> pfile, dirs |-> dirs]
  /\ pc' = "assert"
  /\ exc' = ""
  /\ hparams' = None
  /\ params' = None
  /\ test_fold' = 0
  /\ current_model_dir' = <<>>
  /\ dataset' = 0
  /\ call' = <<>>
  /\ estimator' = NoEstimator
  /\ train_spec' = NoTrainSpec
  /\ writes' = <<>>
  /\ loads' = {}
  /\ makedirs_calls' = <<>>
  /\ reads' = <<>>
  /\ train_eval_calls' = <<>>
  /\ print_eval_done' = 0
  /\ UNCHANGED <<config, fsys>>

Next ==
  \/ AssertNoCuda
  \/ HparamsLoad
  \/ HparamsDefault
  \/ ParamsLoad
  \/ ParamsDefault
  \/ SelectFold
  \/ EnsureModelDir
  \/ ReadDataset
  \/ TrainAndEvalFn
  \/ PrintEval
  \/ TrainAndEvaluate
  \/ NextFold
  \/ RunAgain

Spec == Init /\ [][Next]_vars

(***************************************************************************)
(* Helpers of the properties.                                              *)
(***************************************************************************)
FoldsOf(calls) == [i \in 1..Len(calls) |-> calls[i].fold]
ModelDirsOf(calls) == [i \in 1..Len(calls) |-> calls[i].estimator.model_dir]
IsPrefix(s, t) == Len(s) <= Len(t) /\ \A i \in 1..Len(s) : s[i] = t[i]
WrittenTo(name) == {i \in 1..Len(writes) : writes[i].name = name}
Loadable(f) == f.exists /\ JsonLoad(f.text).ok
HasBatchSize(f) ==
  Loadable(f) /\ Subscript(JsonLoad(f.text).val, "batch_size").ok

\* main has passed the hyperparameter (parameter) bootstrap of this run
\* after starting without that file.
PastHparamsDefault ==
  /\ ~start.hfile.exists
  /\ pc \notin {"assert", "hparams"}
  /\ exc # "AssertionError"
PastParamsDefault ==
  /\ ~start.pfile.exists
  /\ pc \notin {"assert", "hparams", "params"}
  /\ exc \notin {"AssertionError", "JSONDecodeError"}

(***************************************************************************)
(* C1.  With TEST_FOLD = 0, no fold subdirectories, no CUDA and            *)
(* do_print_eval false, a run of main that has ended has performed three   *)
(* train/eval runs, for folds 1, 2 and 3 in that order, each with an       *)
(* estimator whose model directory is the fold's subdirectory, and the     *)
(* model directory holds exactly fold1, fold2 and fold3.  (Stated for      *)
(* runs whose hyperparameter file has a batch size and whose parameter     *)
(* file loads, so that nothing but the sweep itself is exercised.)         *)
(***************************************************************************)
C1_SweepRunsThreeFolds ==
  ( /\ TEST_FOLD = 0 /\ ~built_with_cuda /\ ~do_print_eval
    /\ start.dirs = {}
    /\ HasBatchSize(start.hfile) /\ Loadable(start.pfile)
    /\ Terminated )
  => /\ pc = "done"
     /\ FoldsOf(train_eval_calls) = <<1, 2, 3>>
     /\ ModelDirsOf(train_eval_calls) = <<FoldDir(1), FoldDir(2), FoldDir(3)>>
     /\ dirs = {FoldDir(1), FoldDir(2), FoldDir(3)}

(***************************************************************************)
(* C2.  With TEST_FOLD = N nonzero, main creates no fold subdirectory but  *)
(* foldN (and creates it when it was missing), reads the dataset at most   *)
(* once and only for fold N, runs at most one train/eval pass, whose       *)
(* estimator has foldN as its model directory; a run that reaches the end  *)
(* of main has read the dataset exactly once and, with do_print_eval       *)
(* false, has run exactly one train/eval pass.                             *)
(***************************************************************************)
C2_SingleFold ==
  TEST_FOLD # 0 =>
    /\ IsPrefix(makedirs_calls, <<FoldDir(TEST_FOLD)>>)
    /\ dirs \ start.dirs \subseteq {FoldDir(TEST_FOLD)}
    /\ IsPrefix(reads, <<TEST_FOLD>>)
    /\ IsPrefix(FoldsOf(train_eval_calls), <<TEST_FOLD>>)
    /\ IsPrefix(ModelDirsOf(train_eval_calls), <<FoldDir(TEST_FOLD)>>)
    /\ pc \in {"read", "build", "run", "next", "done"} =>
         /\ dirs = start.dirs \cup {FoldDir(TEST_FOLD)}
         /\ FoldDir(TEST_FOLD) \notin start.dirs =>
              makedirs_calls = <<FoldDir(TEST_FOLD)>>
    /\ pc \in {"build", "run", "next", "done"} => reads = <<TEST_FOLD>>
    /\ (pc \in {"next", "done"} /\ ~do_print_eval) =>
         /\ FoldsOf(train_eval_calls) = <<TEST_FOLD>>
         /\ ModelDirsOf(train_eval_calls) = <<FoldDir(TEST_FOLD)>>

C2_Witness ==
  /\ TEST_FOLD = 2 /\ pc = "done"
  /\ start.dirs = {} /\ dirs = {FoldDir(2)}
  /\ reads = <<2>>
  /\ ModelDirsOf(train_eval_calls) = <<FoldDir(2)>>

(***************************************************************************)
(* C3.  For each config file: if it did not exist when main started, then  *)
(* once main is past that file's bootstrap the file holds the dump of the  *)
(* hardcoded default, written by this run, and the value handed to         *)
(* train_and_eval_fn in this run is the value that text loads to.          *)
(***************************************************************************)
C3_DefaultWrittenIsUsed ==
  /\ PastHparamsDefault =>
       /\ \E i \in WrittenTo(HPARAMS_JSON) : hfile = File(writes[i].text)
       /\ Loadable(hfile)
       /\ JsonLoad(hfile.text).val = DEFAULT_HPARAMS
       /\ hparams = JsonLoad(hfile.text).val
       /\ call # <<>> => call[2].v = JsonLoad(hfile.text).val
  /\ PastParamsDefault =>
       /\ \E i \in WrittenTo(PARAMS_JSON) : pfile = File(writes[i].text)
       /\ Loadable(pfile)
       /\ JsonLoad(pfile.text).val = DEFAULT_PARAMS
       /\ params = JsonLoad(pfile.text).val
       /\ call # <<>> => call[1].v = JsonLoad(pfile.text).val

C3_Witness ==
  /\ PastHparamsDefault /\ PastParamsDefault
  /\ call # <<>>
  /\ Len(writes) = 2

(***************************************************************************)
(* C4.  For each config file: if it existed when main started, main never  *)
(* writes it, so its contents stay what they were, and once it is loaded   *)
(* the value the run uses (and hands to train_and_eval_fn) is what the     *)
(* file's contents load to; this holds whatever the other file's state.    *)
(***************************************************************************)
C4_ExistingFileLoadedNotWritten ==
  /\ start.hfile.exists =>
       /\ hfile = start.hfile
       /\ WrittenTo(HPARAMS_JSON) = {}
       /\ pc \in {"params", "fold", "mkdir", "read", "build", "run", "next",
                  "done"} =>
            /\ HPARAMS_JSON \in loads
            /\ hparams = JsonLoad(start.hfile.text).val
       /\ call # <<>> => call[2].v = JsonLoad(start.hfile.text).val
  /\ start.pfile.exists =>
       /\ pfile = start.pfile
       /\ WrittenTo(PARAMS_JSON) = {}
       /\ pc \in {"fold", "mkdir", "read", "build", "run", "next", "done"} =>
            /\ PARAMS_JSON \in loads
            /\ params = JsonLoad(start.pfile.text).val
       /\ call # <<>> => call[1].v = JsonLoad(start.pfile.text).val

\* a loaded file whose text is not what json.dump would write, beside a
\* parameter file that was missing
C4_Witness ==
  /\ run = 1
  /\ start.hfile.exists /\ ~start.pfile.exists
  /\ call # <<>>
  /\ hfile.text # JsonDump(hparams)
  /\ Len(writes) = 1

(***************************************************************************)
(* C5.  For every total_training_iterations >= 0 and                       *)
(* NUM_UPDATES_PER_EPOCH > 0, save_checkpoints_steps and                   *)
(* save_summary_steps of the estimator's run config both equal             *)
(* max(1, ceil(total_training_iterations / NUM_UPDATES_PER_EPOCH)).        *)
(***************************************************************************)
C5_UpdateStepsIsMaxCeil ==
  estimator.built =>
    LET expected == BigMax(Big(0, 1),
                           ExactCeil(train_spec.max_steps,
                                     NUM_UPDATES_PER_EPOCH))
    IN /\ estimator.save_checkpoints_steps = expected
       /\ estimator.save_summary_steps = expected
       /\ ~BigLess(expected, Big(0, 1))

(***************************************************************************)
(* C6.  Started with neither config file, no CUDA, do_print_eval false     *)
(* and a nonzero TEST_FOLD, a run of main that has ended has reached       *)
(* tf.estimator.train_and_evaluate with the default hparams and params.    *)
(***************************************************************************)
C6_DefaultHparamsUsable ==
  ( /\ ~start.hfile.exists /\ ~start.pfile.exists
    /\ ~built_with_cuda /\ ~do_print_eval /\ TEST_FOLD # 0
    /\ Terminated )
  => /\ pc = "done"
     /\ Len(train_eval_calls) = 1
     /\ hparams = DEFAULT_HPARAMS /\ params = DEFAULT_PARAMS

(***************************************************************************)
(* C7.  When a run of main started with no config files (and passed the    *)
(* CUDA assertion), the run after it takes the load branch for both files, *)
(* writes neither, uses the hparams and params the first run used, and     *)
(* leaves both files as the first run wrote them.                          *)
(***************************************************************************)
AfterFreshRun ==
  /\ prev.valid
  /\ ~prev.start.hfile.exists /\ ~prev.start.pfile.exists
  /\ ~built_with_cuda

C7_BootstrapIdempotent ==
  AfterFreshRun =>
    /\ hfile = prev.hfile /\ pfile = prev.pfile
    /\ hfile = File(JsonDump(prev.hparams))
    /\ pfile = File(JsonDump(prev.params))
    /\ writes = <<>>
    /\ pc \notin {"assert", "hparams"} =>
         HPARAMS_JSON \in loads /\ hparams = prev.hparams
    /\ pc \notin {"assert", "hparams", "params"} =>
         PARAMS_JSON \in loads /\ params = prev.params
    /\ call # <<>> => call[1].v = prev.params /\ call[2].v = prev.hparams

C7_Witness ==
  /\ AfterFreshRun
  /\ call # <<>>
  /\ loads = {HPARAMS_JSON, PARAMS_JSON}

(***************************************************************************)
(* C8.  The creation step of a fold's model directory: if the directory    *)
(* exists, makedirs is not called, nothing changes on the filesystem and   *)
(* no error is raised; if it does not exist, it is created.  The directory *)
(* of every fold whose dataset has been read exists, and applying the      *)
(* creation step twice gives the filesystem that applying it once gives.   *)
(***************************************************************************)
C8_CreationStep ==
  pc = "mkdir" =>
    LET d == FoldDir(test_fold)
    IN /\ pc' = "read" /\ exc' = ""
       /\ d \in dirs' /\ current_model_dir' = d
       /\ d \in dirs => dirs' = dirs /\ makedirs_calls' = makedirs_calls
       /\ d \notin dirs =>
            dirs' = dirs \cup {d} /\ makedirs_calls' = Append(makedirs_calls, d)
       /\ UNCHANGED <<hfile, pfile>>

C8_DirExistsBeforeRead ==
  /\ \A i \in 1..Len(reads) : FoldDir(reads[i]) \in dirs
  /\ pc = "read" => current_model_dir \in dirs
  /\ \A n \in 1..MaxFold :
       EnsureDir(EnsureDir(dirs, FoldDir(n)), FoldDir(n)) =
         EnsureDir(dirs, FoldDir(n))

C8_ModelDirIdempotent == [][C8_CreationStep]_vars /\ []C8_DirExistsBeforeRead

\* the second run finds the directory the first run created
C8_Witness ==
  /\ run = 2 /\ pc = "read"
  /\ prev.start.dirs = {}
  /\ current_model_dir \in start.dirs
  /\ makedirs_calls = <<>>
  /\ reads = <<>>

(***************************************************************************)
(* C9.  When TensorFlow is built with CUDA, main stops at the assertion:   *)
(* no config file is read or written, no directory is created, no dataset  *)
(* is read, nothing is trained or evaluated, and the filesystem is as it   *)
(* was when the run started.                                               *)
(***************************************************************************)
C9_CudaAbortsFirst ==
  built_with_cuda =>
    /\ pc \in {"assert", "aborted"}
    /\ pc = "aborted" => exc = "AssertionError"
    /\ hfile = start.hfile /\ pfile = start.pfile /\ dirs = start.dirs
    /\ loads = {} /\ writes = <<>> /\ makedirs_calls = <<>>
    /\ reads = <<>> /\ call = <<>>
    /\ train_eval_calls = <<>> /\ print_eval_done = 0
    /\ hparams = None /\ params = None /\ ~estimator.built

C9_Witness ==
  /\ built_with_cuda /\ pc = "aborted" /\ exc = "AssertionError"
  /\ ~hfile.exists /\ ~pfile.exists /\ dirs = {}

(***************************************************************************)
(* C10.  With do_print_eval true, every fold pass runs print_eval to       *)
(* completion without error and train_and_evaluate is never invoked; with  *)
(* do_print_eval false, train_and_evaluate is invoked once per fold pass   *)
(* and print_eval never.                                                   *)
(***************************************************************************)
C10_PrintEvalOrTrain ==
  /\ do_print_eval =>
       /\ train_eval_calls = <<>>
       /\ pc \in {"next", "done"} => print_eval_done = Len(reads)
       /\ estimator.built => pc # "aborted"
  /\ ~do_print_eval =>
       /\ print_eval_done = 0
       /\ pc \in {"next", "done"} => Len(train_eval_calls) = Len(reads)

====
